---- MODULE Spec2Model ----
(***************************************************************************)
(* A model of the streaming Markdown block reducer of streamdown:          *)
(* BlockReducer.push / BlockReducer.close, the mode strategies they        *)
(* dispatch to (Paragraph, Heading, CodeFence, InlineCode, List,           *)
(* OrderedList), the shared ReducerContext and the emitted BlockDiffs.     *)
(*                                                                         *)
(* A string is a sequence of one-character strings.  currentBlock is the   *)
(* 1-based index into blocks of the object the field refers to, 0 for      *)
(* null: the code only ever assigns it a block it has just pushed onto     *)
(* blocks, or null.  A block is a record with every field of the Block     *)
(* union; level = 0, number = 0 and lang = <<>> stand for an absent field. *)
(***************************************************************************)
EXTENDS Integers, Sequences, FiniteSets, TLC

\* ------------------------------------------------------------------ bounds

\* Calls (push or close) made after the initial prefix.
MaxCalls == 4

\* ------------------------------------------------------------- characters

\* The backtick character (written "BT": the lexer of TLA+ takes no backtick
\* inside a string).
Backtick == "BT"
Newline == "\n"

\* The characters fed to push: every character the reducers special-case
\* and one ordinary character.  The two digits are the one whose value is
\* zero and one whose value is not.
Chars == {Backtick, "#", "-", "0", "1", ".", " ", "\n", "a"}

DigitChars == {"0", "1", "2", "3", "4", "5", "6", "7", "8", "9"}

\* /\d/.test(char)
IsDigit(char) == char \in DigitChars

\* parseInt(char, 10) of one digit character
parseInt(char) ==
  CASE char = "0" -> 0 [] char = "1" -> 1 [] char = "2" -> 2 [] char = "3" -> 3
    [] char = "4" -> 4 [] char = "5" -> 5 [] char = "6" -> 6 [] char = "7" -> 7
    [] char = "8" -> 8 [] char = "9" -> 9

DigitChar(d) ==
  CASE d = 0 -> "0" [] d = 1 -> "1" [] d = 2 -> "2" [] d = 3 -> "3"
    [] d = 4 -> "4" [] d = 5 -> "5" [] d = 6 -> "6" [] d = 7 -> "7"
    [] d = 8 -> "8" [] d = 9 -> "9"

abs(n) == IF n < 0 THEN -n ELSE n

RECURSIVE natToString(_)
natToString(n) ==
  IF n < 10 THEN <<DigitChar(n)>>
  ELSE natToString(n \div 10) \o <<DigitChar(n % 10)>>

\* Number.prototype.toString(): decimal digits, "-" in front of a negative.
toString(n) == IF n < 0 THEN <<"-">> \o natToString(-n) ELSE natToString(n)

\* String.prototype.repeat
RECURSIVE repeat(_, _)
repeat(char, n) == IF n <= 0 THEN <<>> ELSE <<char>> \o repeat(char, n - 1)

Whitespace == {" ", "\n"}

\* String.prototype.trim
RECURSIVE trimStart(_)
trimStart(s) ==
  IF s # <<>> /\ Head(s) \in Whitespace THEN trimStart(Tail(s)) ELSE s

RECURSIVE trimEnd(_)
trimEnd(s) ==
  IF s # <<>> /\ s[Len(s)] \in Whitespace
  THEN trimEnd(SubSeq(s, 1, Len(s) - 1)) ELSE s

trim(s) == trimEnd(trimStart(s))

\* ------------------------------------------------------------ parse modes

ParseMode == {"paragraph", "heading", "fenceStart", "code", "inlineCode", "list"}

\* The mode of OrderedListReducer.
OrderedListMode == "orderedList"

NoMode == "none"

\* ------------------------------------------------------- blocks and diffs

Block(id, type) ==
  [id |-> id, type |-> type, text |-> <<>>, level |-> 0, lang |-> <<>>, number |-> 0]

\* block: { ...block }: the diff carries a copy of the block as it is now.
\* A diff that carried the reducer's own block object instead would have a
\* field alias, the position of that object in blocks, and show its later
\* changes.
AppendDiff(block) ==
  [kind |-> "append", id |-> block.id, block |-> block]

PatchDiff(block) ==
  [kind |-> "patch", id |-> block.id, block |-> block]

createInitialContext ==
  [blocks |-> <<>>, currentBlock |-> 0, nextBlockId |-> 0, mode |-> "paragraph",
   pendingBackticks |-> 0, languageBuffer |-> <<>>, headingLevel |-> 0,
   orderedListNumber |-> 0]

\* context.currentBlock, dereferenced (only used when it is not null)
Current(context) == context.blocks[context.currentBlock]

HasCurrent(context) == context.currentBlock # 0

CurrentIs(context, type) == HasCurrent(context) /\ Current(context).type = type

\* A ReducerResult, together with the context as the call left it.
Result(context, diffs, handled, newMode) ==
  [ctx |-> context, diffs |-> diffs, handled |-> handled, newMode |-> newMode]

\* ------------------------------------------------------------ BaseReducer

\* A context and the diffs a helper produced on the way to it.
Out(context, diffs) == [ctx |-> context, diffs |-> diffs]

\* The diffs of an earlier step, followed by those of the step that came after it.
After(diffs, out) == [out EXCEPT !.diffs = diffs \o @]

noChange(context) == Result(context, <<>>, TRUE, NoMode)

withDiffs(context, diffs) == Result(context, diffs, TRUE, NoMode)

notHandled(context) == Result(context, <<>>, FALSE, NoMode)

\* return result.diffs: what the caller of a reducer hands on
diffsOf(result) == Out(result.ctx, result.diffs)

\* return this.withDiffs(...diffs), for the diffs a helper returned
withDiffsOf(out) == withDiffs(out.ctx, out.diffs)

\* id: context.nextBlockId++; context.blocks.push(block); context.currentBlock = block
pushBlock(block, context) ==
  [context EXCEPT !.nextBlockId = @ + 1,
                  !.blocks = Append(@, block),
                  !.currentBlock = Len(context.blocks) + 1]

createBlock(type, context) == pushBlock(Block(context.nextBlockId, type), context)

\* Mutant: block: block, the Append carries the reducer's own block object.
createAppendDiff_ByReference(block) ==
  [kind |-> "append", id |-> block.id, block |-> block, alias |-> block.id + 1]

createAppendDiff(block) == AppendDiff(block)

\* Mutant: the new paragraph becomes current only when nothing was current.
createParagraphBlock_KeepsCurrent(context) ==
  LET c1 == pushBlock(Block(context.nextBlockId, "paragraph"), context)
      c2 == IF HasCurrent(context)
            THEN [c1 EXCEPT !.currentBlock = context.currentBlock] ELSE c1
  IN Out(c2, <<AppendDiff(c1.blocks[Len(c1.blocks)])>>)

createParagraphBlock(context) ==
  LET c1 == pushBlock(Block(context.nextBlockId, "paragraph"), context)
  IN Out(c1, <<AppendDiff(Current(c1))>>)

\* Mutant: the new code block becomes current only when nothing was current.
createCodeBlock_KeepsCurrent(context) ==
  LET c1 == pushBlock(Block(context.nextBlockId, "code"), context)
      c2 == IF HasCurrent(context)
            THEN [c1 EXCEPT !.currentBlock = context.currentBlock] ELSE c1
  IN Out(c2, <<AppendDiff(c1.blocks[Len(c1.blocks)])>>)

createCodeBlock(context) ==
  LET c1 == pushBlock(Block(context.nextBlockId, "code"), context)
  IN Out(c1, <<AppendDiff(Current(c1))>>)

\* Mutant: a paragraph created on demand is patched but never announced.
appendToParagraph_PatchOnly(text, context) ==
  LET needNewBlock == ~HasCurrent(context) \/ Current(context).type # "paragraph"
      c1 == IF needNewBlock
            THEN pushBlock(Block(context.nextBlockId, "paragraph"), context)
            ELSE context
      c2 == [c1 EXCEPT !.blocks[c1.currentBlock].text = @ \o text]
  IN Out(c2, <<PatchDiff(Current(c2))>>)

\* The second half of appendToParagraph: the text goes to the current block
\* (created just now, or found) and the patch follows the append, if any.
appendToCurrentParagraph(text, created) ==
  LET c2 == [created.ctx EXCEPT !.blocks[created.ctx.currentBlock].text = @ \o text]
  IN Out(c2, created.diffs \o <<PatchDiff(Current(c2))>>)

appendToParagraph(text, context) ==
  appendToCurrentParagraph(text,
    IF ~HasCurrent(context) \/ Current(context).type # "paragraph"
    THEN createParagraphBlock(context)
    ELSE Out(context, <<>>))

appendToCurrentBlock(text, context) ==
  IF ~HasCurrent(context) THEN context
  ELSE [context EXCEPT !.blocks[context.currentBlock].text = @ \o text]

\* The patch, or nothing (null) when there is no current block.
emitPatch(context) ==
  IF ~HasCurrent(context) THEN <<>> ELSE <<PatchDiff(Current(context))>>

\* A second appendToParagraph, on the context the first one left.
thenAppendToParagraph(text, out) == After(out.diffs, appendToParagraph(text, out.ctx))

closeCurrentBlock(context) ==
  [context EXCEPT !.currentBlock = 0, !.mode = "paragraph", !.languageBuffer = <<>>]

\* Mutant: the text is appended and no patch is emitted.
appendAndPatch_NoPatch(text, context) ==
  withDiffs(appendToCurrentBlock(text, context), <<>>)

\* appendToCurrentBlock(text) followed by emitPatch, as every strategy pairs them
appendAndPatch(text, context) ==
  LET c1 == appendToCurrentBlock(text, context) IN withDiffs(c1, emitPatch(c1))

\* ------------------------------------------------------- ParagraphReducer

\* Mutant: a newline opens the paragraph of the next line at once.
ParagraphProcess_NewlineOpensNext(char, context) ==
  IF context.mode # "paragraph" THEN notHandled(context)
  ELSE IF char = Newline
  THEN withDiffsOf(createParagraphBlock(closeCurrentBlock(context)))
  ELSE withDiffsOf(appendToParagraph(<<char>>, context))

ParagraphProcess(char, context) ==
  IF context.mode # "paragraph" THEN notHandled(context)
  ELSE IF char = Newline THEN noChange(closeCurrentBlock(context))
  ELSE withDiffsOf(appendToParagraph(<<char>>, context))

\* Mutant: one backtick is appended whatever the count.
ParagraphFlushBackticks_Single(count, context) ==
  IF context.mode # "paragraph" THEN notHandled(context)
  ELSE withDiffsOf(appendToParagraph(<<Backtick>>, context))

ParagraphFlushBackticks(count, context) ==
  IF context.mode # "paragraph" THEN notHandled(context)
  ELSE withDiffsOf(appendToParagraph(repeat(Backtick, count), context))

\* --------------------------------------------------------- HeadingReducer

MaxHeadingLevel == 6

\* Mutant: a # starts a heading anywhere in paragraph mode.
canStartHeading_Anywhere(char, context) ==
  char = "#" /\ context.mode = "paragraph"

canStartHeading(char, context) ==
  /\ char = "#"
  /\ context.mode = "paragraph"
  /\ (~HasCurrent(context) \/ Current(context).text = <<>>)

\* Mutant: the trigger consumes the first #, which is then never counted.
startHeading_Handled(context) ==
  Result([context EXCEPT !.headingLevel = 0], <<>>, TRUE, "heading")

startHeading(context) ==
  Result([context EXCEPT !.headingLevel = 0], <<>>, FALSE, "heading")

createHeadingBlock(context) ==
  pushBlock([Block(context.nextBlockId, "heading") EXCEPT !.level = context.headingLevel],
            context)

\* Fall back to paragraph mode: the collected #s, then the text that broke the marker.
HeadingFallBack(text, context) ==
  withDiffsOf(
    thenAppendToParagraph(text,
      appendToParagraph(repeat("#", context.headingLevel),
                        [context EXCEPT !.headingLevel = 0, !.mode = "paragraph"])))

HeadingProcess(char, context) ==
  IF context.mode # "heading" THEN notHandled(context)
  ELSE IF char = "#" THEN
    LET c1 == [context EXCEPT !.headingLevel = @ + 1] IN
    IF c1.headingLevel > MaxHeadingLevel THEN
      withDiffsOf(appendToParagraph(repeat("#", c1.headingLevel),
                    [c1 EXCEPT !.headingLevel = 0, !.mode = "paragraph"]))
    ELSE noChange(c1)
  ELSE IF char = " " THEN
    IF context.headingLevel = 0 THEN appendAndPatch(<<char>>, context)
    ELSE LET c1 == createHeadingBlock(context)
         IN withDiffs([c1 EXCEPT !.headingLevel = 0], <<createAppendDiff(Current(c1))>>)
  ELSE IF context.headingLevel = 0 /\ CurrentIs(context, "heading") THEN
    IF char = Newline
    THEN noChange([context EXCEPT !.mode = "paragraph", !.currentBlock = 0])
    ELSE appendAndPatch(<<char>>, context)
  ELSE HeadingFallBack(<<char>>, context)

HeadingFlushBackticks(count, context) ==
  IF context.mode # "heading" THEN notHandled(context)
  ELSE IF context.headingLevel = 0 /\ CurrentIs(context, "heading")
  THEN appendAndPatch(repeat(Backtick, count), context)
  ELSE HeadingFallBack(repeat(Backtick, count), context)

\* ------------------------------------------------------- CodeFenceReducer

\* Mutant: only Code mode closes the block; a fence in FenceStart opens another.
handleFenceTrigger_OnlyCodeCloses(context) ==
  IF context.mode = "code"
  THEN noChange(closeCurrentBlock(context))
  ELSE withDiffsOf(createCodeBlock(
         [context EXCEPT !.mode = "fenceStart", !.languageBuffer = <<>>]))

handleFenceTrigger(context) ==
  IF context.mode = "code" \/ context.mode = "fenceStart"
  THEN noChange(closeCurrentBlock(context))
  ELSE withDiffsOf(createCodeBlock(
         [context EXCEPT !.mode = "fenceStart", !.languageBuffer = <<>>]))

\* Mutant: the language line is stored as typed, without trimming.
finalizeLanguage_NoTrim(context) ==
  IF ~CurrentIs(context, "code") \/ context.languageBuffer = <<>>
  THEN Out(context, <<>>)
  ELSE LET c1 == [context EXCEPT !.blocks[context.currentBlock].lang =
                                   context.languageBuffer]
       IN Out(c1, <<PatchDiff(Current(c1))>>)

finalizeLanguage(context) ==
  IF ~CurrentIs(context, "code") THEN Out(context, <<>>)
  ELSE LET lang == trim(context.languageBuffer) IN
       IF lang = <<>> THEN Out(context, <<>>)
       ELSE LET c1 == [context EXCEPT !.blocks[context.currentBlock].lang = lang]
            IN Out(c1, <<PatchDiff(Current(c1))>>)

handleFenceStart(char, context) ==
  IF char = Newline
  THEN LET f == finalizeLanguage(context)
       IN withDiffs([f.ctx EXCEPT !.mode = "code"], f.diffs)
  ELSE withDiffs([context EXCEPT !.languageBuffer = @ \o <<char>>], <<>>)

\* Mutant: a newline is not part of the code.
handleCodeContent_SkipsNewline(char, context) ==
  IF char = Newline THEN noChange(context) ELSE appendAndPatch(<<char>>, context)

handleCodeContent(char, context) == appendAndPatch(<<char>>, context)

CodeFenceProcess(char, context) ==
  CASE context.mode = "fenceStart" -> handleFenceStart(char, context)
    [] context.mode = "code" -> handleCodeContent(char, context)
    [] OTHER -> notHandled(context)

\* Mutant: on the language line the backticks join the language buffer.
CodeFenceFlushBackticks_IntoLanguage(count, context) ==
  IF context.mode = "code" THEN appendAndPatch(repeat(Backtick, count), context)
  ELSE IF context.mode = "fenceStart"
  THEN noChange([context EXCEPT !.languageBuffer = @ \o repeat(Backtick, count)])
  ELSE notHandled(context)

CodeFenceFlushBackticks(count, context) ==
  IF context.mode = "code" \/ context.mode = "fenceStart"
  THEN appendAndPatch(repeat(Backtick, count), context)
  ELSE notHandled(context)

\* ------------------------------------------------------ InlineCodeReducer

canStartInlineCode(context) ==
  /\ context.pendingBackticks = 1
  /\ context.mode # "code"
  /\ context.mode # "fenceStart"
  /\ context.mode # "inlineCode"

startInlineCode(context) ==
  LET c1 == createBlock("inlineCode", [context EXCEPT !.pendingBackticks = 0])
  IN Result(c1, <<createAppendDiff(Current(c1))>>, FALSE, "inlineCode")

InlineCodeProcess(char, context) ==
  IF context.mode # "inlineCode" THEN notHandled(context)
  ELSE IF char = Newline THEN noChange(closeCurrentBlock(context))
  ELSE appendAndPatch(<<char>>, context)

InlineCodeFlushBackticks(count, context) ==
  IF context.mode # "inlineCode" THEN notHandled(context)
  ELSE IF count = 1 THEN noChange(closeCurrentBlock(context))
  ELSE appendAndPatch(repeat(Backtick, count), context)

\* ------------------------------------------------------------ ListReducer

canStartList(char, context) ==
  /\ char = "-"
  /\ context.mode = "paragraph"
  /\ (~HasCurrent(context) \/ Current(context).text = <<>>)

\* Mutant: the trigger leaves the - to the list strategy, as the heading
\* trigger leaves the # to the heading strategy.
startList_NotHandled(context) == Result(context, <<>>, FALSE, "list")

startList(context) == Result(context, <<>>, TRUE, "list")

createListItemBlock(context) ==
  pushBlock(Block(context.nextBlockId, "listItem"), context)

ListProcess(char, context) ==
  IF context.mode # "list" THEN notHandled(context)
  ELSE IF char = Newline
  THEN noChange([context EXCEPT !.mode = "paragraph", !.currentBlock = 0])
  ELSE LET create == ~CurrentIs(context, "listItem")
           c1 == IF create THEN createListItemBlock(context) ELSE context
           d1 == IF create THEN <<createAppendDiff(Current(c1))>> ELSE <<>>
       IN IF create /\ char = " " THEN withDiffs(c1, d1)
          ELSE LET c2 == appendToCurrentBlock(<<char>>, c1)
               IN withDiffs(c2, d1 \o emitPatch(c2))

ListFlushBackticks(count, context) ==
  IF context.mode # "list" THEN notHandled(context)
  ELSE LET ticks == repeat(Backtick, count) IN
       IF ~CurrentIs(context, "listItem")
       THEN LET c1 == createListItemBlock(context)
                c2 == [c1 EXCEPT !.blocks[c1.currentBlock].text = ticks]
            IN withDiffs(c2, <<createAppendDiff(Current(c2))>> \o emitPatch(c2))
       ELSE appendAndPatch(ticks, context)

\* ----------------------------------------------------- OrderedListReducer

canStartOrderedList(char, context) ==
  /\ IsDigit(char)
  /\ context.mode = "paragraph"
  /\ (~HasCurrent(context) \/ Current(context).text = <<>>)

startOrderedList(context, char) ==
  Result([context EXCEPT !.orderedListNumber = parseInt(char)], <<>>, TRUE,
         OrderedListMode)

createOrderedListItemBlock(context, number) ==
  pushBlock([Block(context.nextBlockId, "orderedListItem") EXCEPT !.number = number],
            context)

\* Fall back to paragraph mode: the number as text, then the text that broke the marker.
OrderedListFallBack(numberStr, text, context) ==
  withDiffsOf(
    thenAppendToParagraph(text,
      appendToParagraph(numberStr,
                        [context EXCEPT !.orderedListNumber = 0, !.mode = "paragraph"])))

\* OrderedListProcess with the space test taking zero for a negative number.
OrderedListProcess_ZeroIsNegative(char, context) ==
  IF context.mode # OrderedListMode THEN notHandled(context)
  ELSE IF char = Newline THEN
    IF CurrentIs(context, "orderedListItem")
    THEN noChange([context EXCEPT !.orderedListNumber = 0, !.mode = "paragraph",
                                  !.currentBlock = 0])
    ELSE withDiffsOf(appendToParagraph(toString(abs(context.orderedListNumber)),
           [context EXCEPT !.orderedListNumber = 0, !.mode = "paragraph"]))
  ELSE IF IsDigit(char)
  THEN noChange([context EXCEPT !.orderedListNumber = @ * 10 + parseInt(char)])
  ELSE IF char = "."
  THEN noChange([context EXCEPT !.orderedListNumber = -abs(@)])
  ELSE IF char = " " /\ context.orderedListNumber <= 0 THEN
    IF CurrentIs(context, "orderedListItem") THEN noChange(context)
    ELSE LET c1 == createOrderedListItemBlock(context, abs(context.orderedListNumber))
         IN withDiffs(c1, <<createAppendDiff(Current(c1))>>)
  ELSE IF CurrentIs(context, "orderedListItem")
  THEN appendAndPatch(<<char>>, context)
  ELSE OrderedListFallBack(toString(context.orderedListNumber), <<char>>, context)

OrderedListProcess(char, context) ==
  IF context.mode # OrderedListMode THEN notHandled(context)
  ELSE IF char = Newline THEN
    IF CurrentIs(context, "orderedListItem")
    THEN noChange([context EXCEPT !.orderedListNumber = 0, !.mode = "paragraph",
                                  !.currentBlock = 0])
    ELSE withDiffsOf(appendToParagraph(toString(abs(context.orderedListNumber)),
           [context EXCEPT !.orderedListNumber = 0, !.mode = "paragraph"]))
  ELSE IF IsDigit(char)
  THEN noChange([context EXCEPT !.orderedListNumber = @ * 10 + parseInt(char)])
  ELSE IF char = "."
  THEN noChange([context EXCEPT !.orderedListNumber = -abs(@)])
  ELSE IF char = " " /\ context.orderedListNumber < 0 THEN
    IF CurrentIs(context, "orderedListItem") THEN noChange(context)
    ELSE LET c1 == createOrderedListItemBlock(context, abs(context.orderedListNumber))
         IN withDiffs(c1, <<createAppendDiff(Current(c1))>>)
  ELSE IF CurrentIs(context, "orderedListItem")
  THEN appendAndPatch(<<char>>, context)
  ELSE OrderedListFallBack(toString(context.orderedListNumber), <<char>>, context)

OrderedListFlushBackticks(count, context) ==
  IF context.mode # OrderedListMode THEN notHandled(context)
  ELSE IF CurrentIs(context, "orderedListItem")
  THEN appendAndPatch(repeat(Backtick, count), context)
  ELSE OrderedListFallBack(toString(abs(context.orderedListNumber)),
                           repeat(Backtick, count), context)

\* ------------------------------------------------------- code-block-utils

\* text.substring(i, i + 3) === three backticks, for a 1-based position i
TripleAt(text, i) ==
  /\ i >= 1
  /\ i + 2 <= Len(text)
  /\ text[i] = Backtick /\ text[i + 1] = Backtick /\ text[i + 2] = Backtick

isPartOfTripleBacktick(text, i) ==
  TripleAt(text, i) \/ TripleAt(text, i - 1) \/ TripleAt(text, i - 2)

countSingleBackticks(text) ==
  Cardinality({i \in 1..Len(text) :
                 text[i] = Backtick /\ ~isPartOfTripleBacktick(text, i)})

\* ----------------------------------------------------- inline-code-handler

EmphasisMarkers == {"_", "~", "*"}

\* inlineTripleBacktickPattern: the text starts with three backticks.
inlineTripleBacktickPattern(text) == TripleAt(text, 1)

\* whitespaceOrMarkersPattern: only whitespace, emphasis markers and backticks.
whitespaceOrMarkersPattern(text) ==
  \A i \in 1..Len(text) : text[i] \in Whitespace \cup EmphasisMarkers \cup {Backtick}

\* inlineCodePattern: the positions of the backtick that opens a run reaching
\* the end of the text: a backtick outside any triple with no backtick after it.
inlineCodePattern(text) ==
  {i \in 1..Len(text) :
     /\ text[i] = Backtick
     /\ ~isPartOfTripleBacktick(text, i)
     /\ \A j \in (i + 1)..Len(text) : text[j] # Backtick}

endsWith(text, n) ==
  /\ Len(text) >= n
  /\ \A i \in (Len(text) - n + 1)..Len(text) : text[i] = Backtick

\* Mutant: a backtick is appended to a text ending with two backticks even
\* when it ends with three.
handleInlineTripleBackticks_AlsoAfterThree(text) ==
  IF ~inlineTripleBacktickPattern(text) \/ (\E i \in 1..Len(text) : text[i] = Newline)
  THEN [isNull |-> TRUE, text |-> text]
  ELSE IF endsWith(text, 2)
  THEN [isNull |-> FALSE, text |-> text \o <<Backtick>>]
  ELSE [isNull |-> FALSE, text |-> text]

\* The repaired text, or null when the rule does not apply.
handleInlineTripleBackticks(text) ==
  IF ~inlineTripleBacktickPattern(text) \/ (\E i \in 1..Len(text) : text[i] = Newline)
  THEN [isNull |-> TRUE, text |-> text]
  ELSE IF endsWith(text, 2) /\ ~endsWith(text, 3)
  THEN [isNull |-> FALSE, text |-> text \o <<Backtick>>]
  ELSE [isNull |-> FALSE, text |-> text]

\* (text.match(/three backticks/g) || []).length: matches do not overlap
RECURSIVE countTriples(_, _)
countTriples(text, i) ==
  IF i + 2 > Len(text) THEN 0
  ELSE IF TripleAt(text, i) THEN 1 + countTriples(text, i + 3)
  ELSE countTriples(text, i + 1)

isInsideIncompleteCodeBlock(text) == countTriples(text, 1) % 2 = 1

\* Mutant: the repair is made when the number of single backticks is even.
handleIncompleteInlineCode_EvenParity(text) ==
  LET inlineResult == handleInlineTripleBackticks(text)
      inlineCodeMatch == inlineCodePattern(text)
  IN IF ~inlineResult.isNull THEN inlineResult.text
     ELSE IF inlineCodeMatch # {} /\ ~isInsideIncompleteCodeBlock(text) THEN
       LET i == CHOOSE k \in inlineCodeMatch : TRUE
           contentAfterMarker == SubSeq(text, i + 1, Len(text))
       IN IF contentAfterMarker = <<>> \/ whitespaceOrMarkersPattern(contentAfterMarker)
          THEN text
          ELSE IF countSingleBackticks(text) % 2 = 0 THEN text \o <<Backtick>>
          ELSE text
     ELSE text

\* Mutant: the content after the opener is not looked at.
handleIncompleteInlineCode_NoContentGuard(text) ==
  LET inlineResult == handleInlineTripleBackticks(text)
      inlineCodeMatch == inlineCodePattern(text)
  IN IF ~inlineResult.isNull THEN inlineResult.text
     ELSE IF inlineCodeMatch # {} /\ ~isInsideIncompleteCodeBlock(text) THEN
       LET i == CHOOSE k \in inlineCodeMatch : TRUE
           contentAfterMarker == SubSeq(text, i + 1, Len(text))
       IN IF countSingleBackticks(text) % 2 = 1 THEN text \o <<Backtick>>
          ELSE text
     ELSE text

handleIncompleteInlineCode(text) ==
  LET inlineResult == handleInlineTripleBackticks(text)
      inlineCodeMatch == inlineCodePattern(text)
  IN IF ~inlineResult.isNull THEN inlineResult.text
     ELSE IF inlineCodeMatch # {} /\ ~isInsideIncompleteCodeBlock(text) THEN
       LET i == CHOOSE k \in inlineCodeMatch : TRUE
           contentAfterMarker == SubSeq(text, i + 1, Len(text))
       IN IF contentAfterMarker = <<>> \/ whitespaceOrMarkersPattern(contentAfterMarker)
          THEN text
          ELSE IF countSingleBackticks(text) % 2 = 1 THEN text \o <<Backtick>>
          ELSE text
     ELSE text

\* --------------------------------------------------------------- registry

\* createDefaultRegistry: the strategy registered for each mode ("none": undefined)
getReducer(m) ==
  CASE m = "paragraph" -> "ParagraphReducer"
    [] m = "heading" -> "HeadingReducer"
    [] m = "fenceStart" -> "CodeFenceReducer"
    [] m = "code" -> "CodeFenceReducer"
    [] m = "inlineCode" -> "InlineCodeReducer"
    [] m = "list" -> "ListReducer"
    [] OTHER -> "none"

\* The registry with every available strategy registered: OrderedListReducer too.
getReducerAll(m) ==
  IF m = OrderedListMode THEN "OrderedListReducer" ELSE getReducer(m)

\* reducer.process(char, context)
process(reducer, char, context) ==
  CASE reducer = "ParagraphReducer" -> ParagraphProcess(char, context)
    [] reducer = "HeadingReducer" -> HeadingProcess(char, context)
    [] reducer = "CodeFenceReducer" -> CodeFenceProcess(char, context)
    [] reducer = "InlineCodeReducer" -> InlineCodeProcess(char, context)
    [] reducer = "ListReducer" -> ListProcess(char, context)
    [] reducer = "OrderedListReducer" -> OrderedListProcess(char, context)

\* reducer.flushBackticks(count, context); not handled when there is no reducer
flushBackticks(reducer, count, context) ==
  CASE reducer = "ParagraphReducer" -> ParagraphFlushBackticks(count, context)
    [] reducer = "HeadingReducer" -> HeadingFlushBackticks(count, context)
    [] reducer = "CodeFenceReducer" -> CodeFenceFlushBackticks(count, context)
    [] reducer = "InlineCodeReducer" -> InlineCodeFlushBackticks(count, context)
    [] reducer = "ListReducer" -> ListFlushBackticks(count, context)
    [] reducer = "OrderedListReducer" -> OrderedListFlushBackticks(count, context)
    [] OTHER -> notHandled(context)

\* ----------------------------------------------------------- BlockReducer

\* The number of pending backticks that makes a code fence.
FenceLength == 3

\* The end of flushPendingBackticks: the reducer's result if it handled the
\* backticks, else the paragraph fallback.
flushFallback(count, result) ==
  IF result.handled THEN result
  ELSE IF result.ctx.mode = "paragraph"
  THEN ParagraphFlushBackticks(count, result.ctx)
  ELSE Result(result.ctx, <<>>, FALSE, NoMode)

flushPendingBackticks(context) ==
  flushFallback(context.pendingBackticks,
    flushBackticks(getReducerAll(context.mode), context.pendingBackticks,
                   [context EXCEPT !.pendingBackticks = 0]))

shouldContinueProcessing(char) == char # Backtick

\* A trigger's result; fired = FALSE stands for null.
Fired(result) ==
  [fired |-> TRUE, ctx |-> result.ctx, diffs |-> result.diffs,
   handled |-> result.handled, newMode |-> result.newMode]

NotFired(context) ==
  [fired |-> FALSE, ctx |-> context, diffs |-> <<>>, handled |-> FALSE,
   newMode |-> NoMode]

checkTriggers(char, context) ==
  IF canStartHeading(char, context) THEN Fired(startHeading(context))
  ELSE IF canStartInlineCode(context) THEN Fired(startInlineCode(context))
  ELSE NotFired(context)

\* The list triggers, after the heading and inline-code triggers.
checkListTriggers(char, context) ==
  IF canStartList(char, context) THEN Fired(startList(context))
  ELSE IF canStartOrderedList(char, context) THEN Fired(startOrderedList(context, char))
  ELSE NotFired(context)

checkAllTriggers(char, context) ==
  LET t == checkTriggers(char, context)
  IN IF t.fired THEN t ELSE checkListTriggers(char, context)

\* Route to the current mode's reducer (the last step of push).
\* if (result.newMode !== undefined && result.newMode !== this.context.mode)
applyNewMode(result) ==
  Out(IF result.newMode # NoMode /\ result.newMode # result.ctx.mode
      THEN [result.ctx EXCEPT !.mode = result.newMode] ELSE result.ctx,
      result.diffs)

route(char, context, diffs) ==
  IF getReducerAll(context.mode) = "none" THEN Out(context, diffs)
  ELSE After(diffs, applyNewMode(process(getReducerAll(context.mode), char, context)))

\* Mutant: the count is not reset before the fence handler runs.
pushBacktick_NoReset(context) ==
  LET c1 == [context EXCEPT !.pendingBackticks = @ + 1] IN
  IF c1.pendingBackticks = FenceLength
  THEN diffsOf(handleFenceTrigger(c1))
  ELSE Out(c1, <<>>)

\* Mutant: the fence is triggered by the fourth backtick.
pushBacktick_FenceAtFour(context) ==
  LET c1 == [context EXCEPT !.pendingBackticks = @ + 1] IN
  IF c1.pendingBackticks = FenceLength + 1
  THEN diffsOf(handleFenceTrigger([c1 EXCEPT !.pendingBackticks = 0]))
  ELSE Out(c1, <<>>)

\* The backtick branch of push: accumulate, and at three trigger the fence.
pushBacktick(context) ==
  LET c1 == [context EXCEPT !.pendingBackticks = @ + 1] IN
  IF c1.pendingBackticks = FenceLength
  THEN diffsOf(handleFenceTrigger([c1 EXCEPT !.pendingBackticks = 0]))
  ELSE Out(c1, <<>>)

\* push from the trigger check on: the trigger's mode and diffs, then the routing
\* unless the trigger handled the character.
pushTriggered(char, triggerResult, diffs) ==
  LET c2 == IF triggerResult.fired /\ triggerResult.newMode # NoMode
            THEN [triggerResult.ctx EXCEPT !.mode = triggerResult.newMode]
            ELSE triggerResult.ctx
      d2 == diffs \o triggerResult.diffs
  IN IF triggerResult.fired /\ triggerResult.handled THEN Out(c2, d2)
     ELSE route(char, c2, d2)

\* push once the pending backticks are flushed (flushing: there were some)
pushFlushed(char, flushing, flushed) ==
  IF flushing /\ flushed.handled /\ ~shouldContinueProcessing(char)
  THEN diffsOf(flushed)
  ELSE pushTriggered(char, checkAllTriggers(char, flushed.ctx), flushed.diffs)

push(char, context) ==
  IF char = Backtick THEN pushBacktick(context)
  ELSE pushFlushed(char, context.pendingBackticks > 0,
                   IF context.pendingBackticks > 0 THEN flushPendingBackticks(context)
                   ELSE notHandled(context))

\* Mutant: the id source is reset with the rest of the state.
resetState_ResetsIds(context) ==
  [context EXCEPT !.currentBlock = 0, !.mode = "paragraph", !.pendingBackticks = 0,
                  !.languageBuffer = <<>>, !.headingLevel = 0, !.nextBlockId = 0]

resetState(context) ==
  [context EXCEPT !.currentBlock = 0, !.mode = "paragraph", !.pendingBackticks = 0,
                  !.languageBuffer = <<>>, !.headingLevel = 0]

\* Mutant: the repaired text is stored and no patch is emitted.
repairParagraph_NoPatch(context) ==
  IF context.mode = "paragraph" /\ CurrentIs(context, "paragraph") THEN
    LET originalText == Current(context).text
        repairedText == handleIncompleteInlineCode(originalText)
    IN Out([context EXCEPT !.blocks[context.currentBlock].text = repairedText], <<>>)
  ELSE Out(context, <<>>)

\* The repair pass of close: the current paragraph, repaired, and the patch if it changed.
repairParagraph(context) ==
  IF context.mode = "paragraph" /\ CurrentIs(context, "paragraph") THEN
    LET originalText == Current(context).text
        repairedText == handleIncompleteInlineCode(originalText)
    IN IF repairedText # originalText
       THEN LET c1 == [context EXCEPT !.blocks[context.currentBlock].text = repairedText]
            IN Out(c1, <<PatchDiff(Current(c1))>>)
       ELSE Out(context, <<>>)
  ELSE Out(context, <<>>)

\* close: an inline code block still open is left as it is, in paragraph mode
closeInlineCode(context) ==
  IF context.mode = "inlineCode" /\ CurrentIs(context, "inlineCode")
  THEN [context EXCEPT !.mode = "paragraph"] ELSE context

\* Mutant: close returns without resetting the state.
closeRepaired_NoReset(repaired) == Out(repaired.ctx, repaired.diffs)

\* close: this.resetState() once the repair pass has run
closeRepaired(repaired) == Out(resetState(repaired.ctx), repaired.diffs)

\* close once the pending backticks are flushed
closeFlushed(flushed) ==
  After(flushed.diffs, closeRepaired(repairParagraph(closeInlineCode(flushed.ctx))))

\* Mutant: close flushes whether or not a backtick is pending.
close_AlwaysFlushes(context) == closeFlushed(flushPendingBackticks(context))

close(context) ==
  closeFlushed(IF context.pendingBackticks > 0 THEN flushPendingBackticks(context)
               ELSE notHandled(context))

\* ----------------------------------------------------------- state machine

VARIABLES
  blocks, currentBlock, nextBlockId, mode, pendingBackticks, languageBuffer,
  headingLevel, orderedListNumber,  \* the ReducerContext of one BlockReducer
  diffs,      \* every diff returned so far, in order (what a subscriber has seen)
  lastDiffs,  \* the diffs returned by the last call
  before,     \* the context as it was when the last call began
  calls,      \* the calls made so far: a character for push, "close" for close
  script,     \* the characters the producer is yet to push before any other
  free,       \* the calls made after the script
  listeners,  \* this.listeners of the StreamDownController: subscriptions, in order
  subs,       \* every subscription made so far, and what its listener was called with
  outbox,     \* the diffs of the call in progress that the outer forEach is yet to finish
  visiting,   \* the listener array that the inner forEach is going through
  pos,        \* how many entries of it the inner forEach has called
  input,      \* the text that the repair function is first called with
  results     \* what the repair function returned, each call made on the last result

ctxVars == <<blocks, currentBlock, nextBlockId, mode, pendingBackticks,
             languageBuffer, headingLevel, orderedListNumber>>

controllerVars == <<listeners, subs, outbox, visiting, pos>>

repairVars == <<input, results>>

vars == <<ctxVars, diffs, lastDiffs, before, calls, script, free, controllerVars,
          repairVars>>

Context ==
  [blocks |-> blocks, currentBlock |-> currentBlock, nextBlockId |-> nextBlockId,
   mode |-> mode, pendingBackticks |-> pendingBackticks,
   languageBuffer |-> languageBuffer, headingLevel |-> headingLevel,
   orderedListNumber |-> orderedListNumber]

SetContext(c) ==
  /\ blocks' = c.blocks
  /\ currentBlock' = c.currentBlock
  /\ nextBlockId' = c.nextBlockId
  /\ mode' = c.mode
  /\ pendingBackticks' = c.pendingBackticks
  /\ languageBuffer' = c.languageBuffer
  /\ headingLevel' = c.headingLevel
  /\ orderedListNumber' = c.orderedListNumber

\* The inputs the producer starts with: nothing; a paragraph followed by an
\* opened code fence, with and without the newline that ends the language
\* line; six #s; a fenced code block with a language line and a body; a list
\* item followed by the marker of a second one; two ordered list items.
Scripts ==
  { <<>>,
    <<"a", Backtick, Backtick, Backtick>>,
    <<"a", Backtick, Backtick, Backtick, Newline>>,
    <<"#", "#", "#", "#", "#", "#">>,
    <<Backtick, Backtick, Backtick, "a", Newline, "#", "1", Newline,
      Backtick, Backtick, Backtick>>,
    <<"-", " ", "a", Newline, "-", " ">>,
    <<"1", ".", " ", "a", Newline, "1", "1", ".", " ", "a", Newline>> }

Init ==
  /\ blocks = createInitialContext.blocks
  /\ currentBlock = createInitialContext.currentBlock
  /\ nextBlockId = createInitialContext.nextBlockId
  /\ mode = createInitialContext.mode
  /\ pendingBackticks = createInitialContext.pendingBackticks
  /\ languageBuffer = createInitialContext.languageBuffer
  /\ headingLevel = createInitialContext.headingLevel
  /\ orderedListNumber = createInitialContext.orderedListNumber
  /\ diffs = <<>>
  /\ lastDiffs = <<>>
  /\ before = createInitialContext
  /\ calls = <<>>
  /\ script \in Scripts
  /\ free = 0
  /\ listeners = <<>>
  /\ subs = <<>>
  /\ outbox = <<>>
  /\ visiting = <<>>
  /\ pos = 0
  /\ input = <<>>
  /\ results = <<>>

Returned(out, call) ==
  /\ SetContext(out.ctx)
  /\ diffs' = diffs \o out.diffs
  /\ lastDiffs' = out.diffs
  /\ before' = Context
  /\ calls' = Append(calls, call)

Push(char) ==
  /\ \/ script # <<>> /\ char = Head(script) /\ script' = Tail(script) /\ free' = free
     \/ script = <<>> /\ free < MaxCalls /\ script' = script /\ free' = free + 1
  /\ Returned(push(char, Context), char)
  /\ UNCHANGED <<controllerVars, repairVars>>

Close ==
  /\ script = <<>>
  /\ free < MaxCalls
  /\ Returned(close(Context), "close")
  /\ UNCHANGED script
  /\ free' = free + 1
  /\ UNCHANGED <<controllerVars, repairVars>>

Next == (\E char \in Chars : Push(char)) \/ Close

Spec == Init /\ [][Next]_vars

\* ---------------------------------------------------------- chunked input

\* StreamDownController.push(token) hands the token whole to
\* BlockReducer.push, whose parameter is a string of any length.  The tokens
\* of more than one character that a producer may push: a heading marker
\* with its space, and two ordinary characters.
Chunks == {"# ", "aa"}

\* The characters of a token.
CharsOf(token) ==
  CASE token = "# " -> <<"#", " ">>
    [] token = "aa" -> <<"a", "a">>
    [] OTHER -> <<token>>

\* text += token: the characters of the token become characters of the text.
RECURSIVE Characters(_)
Characters(text) ==
  IF text = <<>> THEN <<>> ELSE CharsOf(Head(text)) \o Characters(Tail(text))

ExpandBlock(block) == [block EXCEPT !.text = Characters(@)]

ExpandDiff(diff) == [diff EXCEPT !.block = ExpandBlock(@)]

ExpandContext(context) ==
  [context EXCEPT
     !.blocks = [i \in 1..Len(context.blocks) |-> ExpandBlock(context.blocks[i])],
     !.languageBuffer = Characters(@)]

\* The outcome of a push, its strings read character by character.
Concatenated(out) ==
  Out(ExpandContext(out.ctx), [i \in 1..Len(out.diffs) |-> ExpandDiff(out.diffs[i])])

\* this.reducer.push(token)
pushToken(token, context) == Concatenated(push(token, context))

PushChunk(token) ==
  /\ script = <<>>
  /\ free < MaxCalls
  /\ Returned(pushToken(token, Context), token)
  /\ UNCHANGED script
  /\ free' = free + 1
  /\ UNCHANGED <<controllerVars, repairVars>>

NextChunks ==
  \/ \E char \in Chars : Push(char)
  \/ \E token \in Chunks : PushChunk(token)
  \/ Close

SpecChunks == Init /\ [][NextChunks]_vars

\* ---------------------------------------------------- StreamDownController

\* The subscribe calls made on one controller.
MaxSubs == 2

\* The push and close calls made on one controller.
MaxControllerCalls == 2

\* The listener functions that views subscribe.
Fns == {"f", "g"}

\* What the producer pushes through the controller.
Tokens == {"a"}

\* A subscription: its listener function, the number of diffs produced
\* before it was made, the diffs its entry of this.listeners was called with
\* (their positions in diffs), whether its unsubscribe function has returned,
\* and whether it was called after that.
Subscription(fn, from) ==
  [fn |-> fn, from |-> from, got |-> <<>>, gone |-> FALSE, late |-> FALSE]

\* this.listeners.push(listener)
subscribe(ls, sub) == Append(ls, sub)

\* this.listeners.filter(l => l !== listener)
RECURSIVE filter(_, _, _)
filter(ls, ss, listener) ==
  IF ls = <<>> THEN <<>>
  ELSE (IF ss[Head(ls)].fn # listener THEN <<Head(ls)>> ELSE <<>>)
         \o filter(Tail(ls), ss, listener)

\* The function that subscribe returned for the subscription sub.
unsubscribe(ls, ss, sub) == filter(ls, ss, ss[sub].fn)

\* What a listener may do when it is called: nothing, subscribe a function,
\* or call an unsubscribe function that some subscribe returned.
Effects(ss) ==
  {[op |-> "none", fn |-> "", sub |-> 0]}
    \cup {[op |-> "subscribe", fn |-> fn, sub |-> 0] :
            fn \in IF Len(ss) < MaxSubs THEN Fns ELSE {}}
    \cup {[op |-> "unsubscribe", fn |-> "", sub |-> sub] : sub \in 1..Len(ss)}

listenersAfter(effect, ls, ss) ==
  CASE effect.op = "subscribe" -> subscribe(ls, Len(ss) + 1)
    [] effect.op = "unsubscribe" -> unsubscribe(ls, ss, effect.sub)
    [] OTHER -> ls

subsAfter(effect, ss, produced) ==
  CASE effect.op = "subscribe" -> Append(ss, Subscription(effect.fn, produced))
    [] effect.op = "unsubscribe" -> [ss EXCEPT ![effect.sub].gone = TRUE]
    [] OTHER -> ss

\* l(diff), for the entry l of the array being visited
called(ss, l, diff) ==
  [ss EXCEPT ![l].got = Append(@, diff), ![l].late = @ \/ ss[l].gone]

\* Mutant: the diffs of a call are handed out last first.
forEach_Reversed(ls, produced, returned) ==
  IF ls = <<>> THEN <<>> ELSE [i \in 1..returned |-> produced + returned + 1 - i]

\* diffs.forEach(...) begins: the diffs to hand out, none when nobody listens.
forEach(ls, produced, returned) ==
  IF ls = <<>> THEN <<>> ELSE [i \in 1..returned |-> produced + i]

Started(returned) ==
  /\ outbox' = forEach(listeners, Len(diffs), returned)
  /\ visiting' = IF forEach(listeners, Len(diffs), returned) = <<>> THEN <<>>
                 ELSE listeners
  /\ pos' = 0
  /\ UNCHANGED <<listeners, subs>>

ControllerPush(token) ==
  /\ outbox = <<>>
  /\ free < MaxControllerCalls
  /\ Returned(push(token, Context), token)
  /\ Started(Len(push(token, Context).diffs))
  /\ UNCHANGED script
  /\ free' = free + 1
  /\ UNCHANGED repairVars

ControllerClose ==
  /\ outbox = <<>>
  /\ free < MaxControllerCalls
  /\ Returned(close(Context), "close")
  /\ Started(Len(close(Context).diffs))
  /\ UNCHANGED script
  /\ free' = free + 1
  /\ UNCHANGED repairVars

Subscribe(fn) ==
  /\ outbox = <<>>
  /\ Len(subs) < MaxSubs
  /\ listeners' = subscribe(listeners, Len(subs) + 1)
  /\ subs' = Append(subs, Subscription(fn, Len(diffs)))
  /\ UNCHANGED <<ctxVars, diffs, lastDiffs, before, calls, script, free,
                 outbox, visiting, pos>>
  /\ UNCHANGED repairVars

Unsubscribe(sub) ==
  /\ outbox = <<>>
  /\ listeners' = unsubscribe(listeners, subs, sub)
  /\ subs' = [subs EXCEPT ![sub].gone = TRUE]
  /\ UNCHANGED <<ctxVars, diffs, lastDiffs, before, calls, script, free,
                 outbox, visiting, pos>>
  /\ UNCHANGED repairVars

\* One call of the inner forEach: the next entry of the array being visited
\* is called with the diff at the head of the outbox, and does what it does;
\* after the last entry the outer forEach goes on to the next diff and reads
\* this.listeners again.
Deliver(effect) ==
  /\ outbox # <<>>
  /\ subs' = subsAfter(effect, called(subs, visiting[pos + 1], Head(outbox)),
                       Len(diffs))
  /\ listeners' = listenersAfter(effect, listeners, subs)
  /\ IF pos + 1 < Len(visiting)
     THEN /\ pos' = pos + 1
          /\ UNCHANGED <<outbox, visiting>>
     ELSE /\ pos' = 0
          /\ outbox' = IF listeners' = <<>> THEN <<>> ELSE Tail(outbox)
          /\ visiting' = IF outbox' = <<>> THEN <<>> ELSE listeners'
  /\ UNCHANGED <<ctxVars, diffs, lastDiffs, before, calls, script, free>>
  /\ UNCHANGED repairVars

InitController == Init /\ script = <<>>

NextController ==
  \/ \E token \in Tokens : ControllerPush(token)
  \/ ControllerClose
  \/ \E fn \in Fns : Subscribe(fn)
  \/ \E sub \in 1..Len(subs) : Unsubscribe(sub)
  \/ \E effect \in Effects(subs) : Deliver(effect)

SpecController == InitController /\ [][NextController]_vars

\* -------------------------------------------------------- repair function

\* The longest text that the repair function is called with.
MaxTextLen == 6

\* The calls of the repair function made one on the result of the other.
MaxRepairs == 2

\* The characters the repair function tells apart: a backtick, a newline
\* (which is also whitespace), an emphasis marker and an ordinary character.
TextChars == {Backtick, Newline, "*", "a"}

Texts == UNION {[1..n -> TextChars] : n \in 0..MaxTextLen}

\* handleIncompleteInlineCode(text), called on the input or on its last result
Repair ==
  /\ Len(results) < MaxRepairs
  /\ results' = Append(results,
                  handleIncompleteInlineCode(IF results = <<>> THEN input
                                             ELSE results[Len(results)]))
  /\ UNCHANGED <<ctxVars, diffs, lastDiffs, before, calls, script, free,
                 controllerVars, input>>

InitRepair ==
  /\ blocks = createInitialContext.blocks
  /\ currentBlock = createInitialContext.currentBlock
  /\ nextBlockId = createInitialContext.nextBlockId
  /\ mode = createInitialContext.mode
  /\ pendingBackticks = createInitialContext.pendingBackticks
  /\ languageBuffer = createInitialContext.languageBuffer
  /\ headingLevel = createInitialContext.headingLevel
  /\ orderedListNumber = createInitialContext.orderedListNumber
  /\ diffs = <<>>
  /\ lastDiffs = <<>>
  /\ before = createInitialContext
  /\ calls = <<>>
  /\ script = <<>>
  /\ free = 0
  /\ listeners = <<>>
  /\ subs = <<>>
  /\ outbox = <<>>
  /\ visiting = <<>>
  /\ pos = 0
  /\ input \in Texts
  /\ results = <<>>

NextRepair == Repair

SpecRepair == InitRepair /\ [][NextRepair]_vars

\* ------------------------------------------------------ reading the state

LastCall == IF calls = <<>> THEN "none" ELSE calls[Len(calls)]

AfterPush == calls # <<>> /\ LastCall # "close"

AfterClose == LastCall = "close"

\* The positions in a diff sequence of the Append diffs carrying id k.
AppendsOf(ds, k) == {i \in 1..Len(ds) : ds[i].kind = "append" /\ ds[i].block.id = k}

\* The positions in a diff sequence of the diffs (of either kind) for id k.
DiffsOf(ds, k) == {i \in 1..Len(ds) : ds[i].id = k}

Max(S) == CHOOSE x \in S : \A y \in S : y <= x

\* A view's collection after one diff: Append inserts the carried block,
\* Patch replaces the block of that id (and does nothing when there is none).
ApplyDiff(view, d) ==
  IF d.kind = "append" THEN Append(view, d.block)
  ELSE [i \in 1..Len(view) |-> IF view[i].id = d.id THEN d.block ELSE view[i]]

RECURSIVE ApplyDiffs(_, _)
ApplyDiffs(view, ds) ==
  IF ds = <<>> THEN view ELSE ApplyDiffs(ApplyDiff(view, Head(ds)), Tail(ds))

\* The blocks that may no longer change when a call begins: every block but
\* the one that is both current and the newest.
Closed(context) ==
  {i \in 1..Len(context.blocks) :
     i # context.currentBlock \/ i # Len(context.blocks)}

\* ----------------------------------------------------------------- claims

\* C1: every Patch diff for id k is preceded, in the order the diffs were
\* emitted, by exactly one Append diff for k, and every block of blocks was
\* announced by exactly one Append diff.
C1_AppendBeforePatch ==
  /\ \A j \in 1..Len(diffs) :
       diffs[j].kind = "patch" =>
         Cardinality(AppendsOf(SubSeq(diffs, 1, j - 1), diffs[j].id)) = 1
  /\ \A i \in 1..Len(blocks) : Cardinality(AppendsOf(diffs, blocks[i].id)) = 1

\* C1 witness: pushes and then a close that left two blocks, one of them patched.
C1_Witness ==
  /\ AfterClose
  /\ Len(blocks) >= 2
  /\ \E j \in 1..Len(diffs) : diffs[j].kind = "patch" /\ diffs[j].id = 1

\* C2: after close, applying every emitted diff in order to an empty
\* collection gives exactly the reducer's blocks.
C2_Reconstruction == AfterClose => ApplyDiffs(<<>>, diffs) = blocks

\* C2 witness: a close that repaired the current paragraph, after a patched block.
C2_Witness ==
  /\ AfterClose
  /\ before.pendingBackticks = 0
  /\ Len(lastDiffs) = 1
  /\ lastDiffs[1].kind = "patch"
  /\ lastDiffs[1].block.type = "paragraph"
  /\ Len(diffs) >= 4

\* C3: the n-th Append diff carries id n-1, the block at index i has id i
\* (counting from 0), nextBlockId is the length of blocks, and no call
\* removes or renumbers a block, close included.
C3_IdsMonotone ==
  /\ LET appends == SelectSeq(diffs, LAMBDA d : d.kind = "append")
     IN \A n \in 1..Len(appends) : appends[n].block.id = n - 1
  /\ \A i \in 1..Len(blocks) : blocks[i].id = i - 1
  /\ nextBlockId = Len(blocks)
  /\ Len(blocks) >= Len(before.blocks)
  /\ \A i \in 1..Len(before.blocks) : blocks[i].id = before.blocks[i].id

\* C3 witness: a block appended by a push that follows a close.
C3_Witness ==
  /\ AfterPush
  /\ Len(blocks) = Len(before.blocks) + 1
  /\ Len(blocks) >= 2
  /\ \E i \in 1..Len(calls) : calls[i] = "close"

\* C4: a current block is the last element of blocks and its id is below nextBlockId.
C4_CurrentIsLast ==
  currentBlock # 0 =>
    /\ currentBlock = Len(blocks)
    /\ blocks[currentBlock].id < nextBlockId

\* C4 witness: a second block is current while an earlier one is in blocks.
C4_Witness == currentBlock = 2 /\ AfterPush

\* C5: after a push that leaves the mode Paragraph, Heading, List or
\* OrderedList with a current block, the last diff emitted for that block
\* carries the block as it is in memory.
C5_DiffMatchesCurrent ==
  (/\ AfterPush
   /\ mode \in {"paragraph", "heading", "list", OrderedListMode}
   /\ currentBlock # 0)
  => /\ DiffsOf(diffs, blocks[currentBlock].id) # {}
     /\ diffs[Max(DiffsOf(diffs, blocks[currentBlock].id))].block = blocks[currentBlock]

\* C5 witness: a current list item whose text two pushes have extended.
C5_Witness ==
  /\ AfterPush
  /\ mode = "list"
  /\ currentBlock # 0
  /\ Len(blocks[currentBlock].text) >= 2

\* What a call may do to the blocks that were closed when it began: nothing,
\* and it returns no diff for them.
ClosedUntouched ==
  \A i \in Closed(before) :
    /\ i <= Len(blocks)
    /\ blocks[i] = before.blocks[i]
    /\ DiffsOf(lastDiffs, before.blocks[i].id) = {}

\* close changed nothing but the text of the block that was current, by the repair.
CloseOnlyRepaired ==
  /\ Len(blocks) = Len(before.blocks)
  /\ \A i \in 1..Len(before.blocks) :
       \/ blocks[i] = before.blocks[i]
       \/ /\ i = before.currentBlock
          /\ blocks[i] = [before.blocks[i] EXCEPT !.text = handleIncompleteInlineCode(@)]

\* C6 as stated: a block that is no longer current is never changed or
\* patched again, and the only change close makes is the inline-code repair
\* of the block current at the time of close.
C6_ClosedNeverModified_Original ==
  /\ ClosedUntouched
  /\ AfterClose => CloseOnlyRepaired

\* C6 as amended: a block that is no longer current is never changed or
\* patched again by push or close; a close with no backtick pending changes
\* only the current block, by the inline-code repair; a close with backticks
\* pending first flushes them, into the current block or into at most one
\* new block.
C6_ClosedNeverModified ==
  /\ ClosedUntouched
  /\ (AfterClose /\ before.pendingBackticks = 0) => CloseOnlyRepaired
  /\ AfterClose => Len(blocks) <= Len(before.blocks) + 1

\* C6 witness: a push patched the current block while a closed block existed.
C6_Witness ==
  /\ AfterPush
  /\ before.currentBlock # 0
  /\ Closed(before) # {}
  /\ lastDiffs # <<>>

\* C7: with exactly one backtick pending and the mode not Code, FenceStart or
\* InlineCode, the push of a non-backtick character c appends a new InlineCode
\* block, switches to InlineCode mode and patches c into that block; the
\* backtick reaches no block's text.
C7_InlineCodeEntry ==
  (/\ AfterPush
   /\ LastCall # Backtick
   /\ before.pendingBackticks = 1
   /\ before.mode \notin {"code", "fenceStart", "inlineCode"})
  => /\ mode = "inlineCode"
     /\ Len(blocks) = Len(before.blocks) + 1
     /\ blocks[Len(blocks)].type = "inlineCode"
     /\ blocks[Len(blocks)].text = <<LastCall>>
     /\ \A i \in 1..Len(before.blocks) : blocks[i] = before.blocks[i]
     /\ lastDiffs = <<AppendDiff(Block(before.nextBlockId, "inlineCode")),
                      PatchDiff(blocks[Len(blocks)])>>

\* C8: the push of the third consecutive backtick resets pendingBackticks and
\* runs the fence handler only: in Code or FenceStart mode it closes the code
\* block with no diff; in any other mode it appends an empty Code block with
\* no lang (one Append), enters FenceStart and clears languageBuffer.  It
\* never creates an InlineCode block.
C8_ThirdBacktickIsFence ==
  (AfterPush /\ LastCall = Backtick /\ before.pendingBackticks = 2)
  => /\ pendingBackticks = 0
     /\ languageBuffer = <<>>
     /\ IF before.mode \in {"code", "fenceStart"}
        THEN /\ currentBlock = 0
             /\ mode = "paragraph"
             /\ lastDiffs = <<>>
             /\ blocks = before.blocks
        ELSE /\ blocks = Append(before.blocks, Block(before.nextBlockId, "code"))
             /\ currentBlock = Len(blocks)
             /\ mode = "fenceStart"
             /\ lastDiffs = <<AppendDiff(Block(before.nextBlockId, "code"))>>

\* C8 witness: the third backtick closed a code block that holds text.
C8_Witness ==
  /\ AfterPush
  /\ LastCall = Backtick
  /\ before.pendingBackticks = 2
  /\ before.mode = "code"
  /\ before.currentBlock # 0
  /\ before.blocks[before.currentBlock].text # <<>>

\* The whole input so far is one backtick, or two.
OnlyBackticks(n) == calls = repeat(Backtick, n)

ClosedAfterBackticks(n) == calls = Append(repeat(Backtick, n), "close")

\* C9 as stated: when the whole input is one or two backticks, no push
\* returns a diff, and close returns no diff and creates no block.
C9_LoneBackticksDiscarded_Original ==
  \A n \in 1..2 :
    (OnlyBackticks(n) \/ ClosedAfterBackticks(n)) => diffs = <<>> /\ blocks = <<>>

\* C9 as amended: when the whole input is one or two backticks, no push
\* returns a diff or creates a block; close flushes the pending backticks as
\* literal text: it creates one Paragraph whose text is those backticks and
\* returns its Append and then its Patch.
C9_LoneBackticksFlushed ==
  \A n \in 1..2 :
    /\ OnlyBackticks(n) => diffs = <<>> /\ blocks = <<>>
    /\ ClosedAfterBackticks(n) =>
         /\ blocks = <<[Block(0, "paragraph") EXCEPT !.text = repeat(Backtick, n)]>>
         /\ lastDiffs = <<AppendDiff(Block(0, "paragraph")), PatchDiff(blocks[1])>>
         /\ diffs = lastDiffs

\* C9 witness: two backticks were pushed to a fresh reducer and it was closed.
C9_Witness == ClosedAfterBackticks(2)

\* C10: between calls pendingBackticks is 0, 1 or 2.
C10_PendingBelowThree == pendingBackticks \in 0..2

\* C10 witness: a third backtick was pushed and the count is back to 0.
C10_Witness ==
  /\ AfterPush
  /\ LastCall = Backtick
  /\ before.pendingBackticks = 2
  /\ pendingBackticks = 0

\* The call was the push of a character other than a backtick, made while no
\* backtick was pending.
PlainPush == AfterPush /\ LastCall # Backtick /\ before.pendingBackticks = 0

\* The blocks as they were when the call began, with text added to the block
\* that was current.
WithText(text) ==
  [before.blocks EXCEPT ![before.currentBlock].text = @ \o text]

\* C11: in Heading mode with the heading block created, the push of a
\* character other than a backtick or a newline (# and space included)
\* appends that character to the heading's text, emits one Patch for it,
\* creates no block and leaves the mode Heading; a newline ends the heading
\* (mode Paragraph, no current block, no diff).
C11_HeadingContent ==
  (/\ PlainPush
   /\ before.mode = "heading"
   /\ before.headingLevel = 0
   /\ CurrentIs(before, "heading"))
  => IF LastCall = Newline
     THEN /\ mode = "paragraph"
          /\ currentBlock = 0
          /\ lastDiffs = <<>>
          /\ blocks = before.blocks
     ELSE /\ mode = "heading"
          /\ currentBlock = before.currentBlock
          /\ blocks = WithText(<<LastCall>>)
          /\ lastDiffs = <<PatchDiff(blocks[currentBlock])>>

\* C12: between calls headingLevel > 0 only if the mode is Heading and the
\* heading block of the current heading is not created yet.
C12_HeadingLevelSentinel ==
  headingLevel > 0 => mode = "heading" /\ ~CurrentIs(Context, "heading")

\* The number of #s that end a sequence of calls.
RECURSIVE TrailingHashes(_)
TrailingHashes(cs) ==
  IF cs = <<>> \/ cs[Len(cs)] # "#" THEN 0
  ELSE 1 + TrailingHashes(SubSeq(cs, 1, Len(cs) - 1))

\* The call at position i is where a line starts: the first call, or the one
\* after a newline, a close, or the backtick that closed a fence.
AtLineStart(i) == i = 1 \/ calls[i - 1] \in {Newline, "close", Backtick}

\* C13: every Heading block has a level in 1..6, and a Heading block is
\* created only by a space, with the level the number of consecutive #s
\* pushed at the line start just before that space.
C13_HeadingLevel ==
  /\ \A i \in 1..Len(blocks) : blocks[i].type = "heading" => blocks[i].level \in 1..6
  /\ (Len(blocks) > Len(before.blocks) /\ blocks[Len(blocks)].type = "heading")
     => /\ LastCall = " "
        /\ LET run == TrailingHashes(SubSeq(calls, 1, Len(calls) - 1))
           IN /\ blocks[Len(blocks)].level = run
              /\ AtLineStart(Len(calls) - run)

\* A paragraph block with the given id and text.
Paragraph(id, text) == [Block(id, "paragraph") EXCEPT !.text = text]

\* C14: the seventh # of a run creates no Heading: the push switches back to
\* Paragraph mode and appends a Paragraph whose text is the seven #s (its
\* Append, then its Patch); the eighth # is appended to that paragraph.
C14_SevenHashes ==
  /\ (PlainPush /\ LastCall = "#" /\ before.mode = "heading" /\ before.headingLevel = 6)
     => /\ mode = "paragraph"
        /\ headingLevel = 0
        /\ blocks = Append(before.blocks,
                           Paragraph(before.nextBlockId, repeat("#", 7)))
        /\ currentBlock = Len(blocks)
        /\ lastDiffs = <<AppendDiff(Block(before.nextBlockId, "paragraph")),
                         PatchDiff(blocks[currentBlock])>>
  /\ \A n \in 7..8 :
       calls = repeat("#", n) =>
         /\ mode = "paragraph"
         /\ blocks = <<Paragraph(0, repeat("#", n))>>
         /\ currentBlock = 1

\* C14 witness: eight #s were pushed to a fresh reducer.
C14_Witness == calls = repeat("#", 8)

\* The modes a marker at a line start leads to.
MarkerModes == {"heading", "list", OrderedListMode}

\* C15: in Paragraph mode with a current paragraph of non-empty text, the
\* push of #, - or a digit leaves the mode alone, appends the character to
\* that paragraph and emits one Patch; and a call enters Heading, List or
\* OrderedList mode only from Paragraph mode with no current block or one
\* of empty text.
C15_MarkersMidParagraph ==
  /\ (/\ PlainPush
      /\ LastCall \in {"#", "-"} \cup DigitChars
      /\ before.mode = "paragraph"
      /\ CurrentIs(before, "paragraph")
      /\ Current(before).text # <<>>)
     => /\ mode = "paragraph"
        /\ currentBlock = before.currentBlock
        /\ blocks = WithText(<<LastCall>>)
        /\ lastDiffs = <<PatchDiff(blocks[currentBlock])>>
  /\ (mode \in MarkerModes /\ mode # before.mode)
     => /\ AfterPush
        /\ before.mode = "paragraph"
        /\ ~HasCurrent(before) \/ Current(before).text = <<>>

\* C15 witness: a digit was pushed after a paragraph's first character.
C15_Witness ==
  /\ PlainPush
  /\ LastCall \in DigitChars
  /\ before.mode = "paragraph"
  /\ CurrentIs(before, "paragraph")
  /\ Current(before).text # <<>>

\* C16: between calls languageBuffer is non-empty only if the mode is
\* FenceStart; in particular it is empty in Code mode.
C16_LanguageBufferInFenceStart == languageBuffer # <<>> => mode = "fenceStart"

\* A code block with the given id, language and text.
Code(id, lang, text) == [Block(id, "code") EXCEPT !.lang = lang, !.text = text]

\* The input of a fenced code block: language line a, body #, 1, newline.
FencedInput ==
  <<Backtick, Backtick, Backtick, "a", Newline, "#", "1", Newline,
    Backtick, Backtick, Backtick>>

\* C17: in Code mode the push of any character other than a backtick (#, -,
\* digits, space and newline included) appends that character to the current
\* Code block's text, emits one Patch and leaves the mode Code; so the fenced
\* input gives one Code block whose text is exactly the body.
C17_CodeIsLiteral ==
  /\ (PlainPush /\ before.mode = "code")
     => /\ mode = "code"
        /\ CurrentIs(before, "code")
        /\ currentBlock = before.currentBlock
        /\ blocks = WithText(<<LastCall>>)
        /\ lastDiffs = <<PatchDiff(blocks[currentBlock])>>
  /\ calls = FencedInput
     => /\ blocks = <<Code(0, <<"a">>, <<"#", "1", Newline>>)>>
        /\ mode = "paragraph"
        /\ currentBlock = 0

\* C17 witness: the fenced input was pushed whole.
C17_Witness == calls = FencedInput

\* C18: when one or two backticks are pending in Code or FenceStart mode and
\* a character other than a backtick is pushed, that many backticks are
\* appended to the current Code block's text, not to languageBuffer, and one
\* Patch is emitted for them before the character is processed; the code
\* block stays open.
C18_BackticksInCode ==
  (/\ AfterPush
   /\ LastCall # Backtick
   /\ before.pendingBackticks \in 1..2
   /\ before.mode \in {"code", "fenceStart"})
  => LET ticks == repeat(Backtick, before.pendingBackticks)
         inCode == before.mode = "code"
     IN /\ CurrentIs(before, "code")
        /\ currentBlock = before.currentBlock
        /\ mode \in {"code", "fenceStart"}
        /\ pendingBackticks = 0
        /\ lastDiffs # <<>>
        /\ lastDiffs[1] = PatchDiff([Current(before) EXCEPT !.text = @ \o ticks])
        /\ blocks[currentBlock].text =
             Current(before).text \o ticks \o (IF inCode THEN <<LastCall>> ELSE <<>>)
        /\ languageBuffer =
             before.languageBuffer \o
               (IF inCode \/ LastCall = Newline THEN <<>> ELSE <<LastCall>>)
        /\ Len(blocks) = Len(before.blocks)

\* C18 witness: two backticks were pending on the language line of a fence
\* when a character arrived.
C18_Witness ==
  /\ AfterPush
  /\ LastCall \notin {Backtick, Newline}
  /\ before.pendingBackticks = 2
  /\ before.mode = "fenceStart"

\* The language line without its leading and trailing spaces, computed from
\* its first and last characters that are not whitespace.
Stripped(buffer) ==
  LET solid == {i \in 1..Len(buffer) : buffer[i] \notin Whitespace}
  IN IF solid = {} THEN <<>>
     ELSE SubSeq(buffer, CHOOSE i \in solid : \A j \in solid : i <= j, Max(solid))

\* C19: a block's lang changes only at the push of the newline that ends
\* FenceStart, on the current Code block, to the trimmed languageBuffer and
\* only if that is non-empty, with one Patch; a lang that is set is non-empty
\* and has no whitespace at either end; any other character pushed in
\* FenceStart extends languageBuffer and emits no diff.
C19_LangFromLanguageLine ==
  /\ \A i \in 1..Len(blocks) :
       /\ i > Len(before.blocks) => blocks[i].lang = <<>>
       /\ (i <= Len(before.blocks) /\ blocks[i].lang # before.blocks[i].lang)
          => /\ AfterPush
             /\ LastCall = Newline
             /\ before.mode = "fenceStart"
             /\ i = before.currentBlock
             /\ blocks[i].type = "code"
       /\ blocks[i].lang # <<>>
          => /\ blocks[i].lang[1] \notin Whitespace
             /\ blocks[i].lang[Len(blocks[i].lang)] \notin Whitespace
  /\ (PlainPush /\ before.mode = "fenceStart")
     => IF LastCall = Newline
        THEN /\ mode = "code"
             /\ blocks = [before.blocks EXCEPT ![before.currentBlock].lang =
                                                 Stripped(before.languageBuffer)]
             /\ lastDiffs = IF Stripped(before.languageBuffer) = <<>> THEN <<>>
                            ELSE <<PatchDiff(blocks[currentBlock])>>
        ELSE /\ mode = "fenceStart"
             /\ languageBuffer = before.languageBuffer \o <<LastCall>>
             /\ blocks = before.blocks
             /\ lastDiffs = <<>>

\* C19 witness: the newline ended a language line that has a space on both
\* sides of the language.
C19_Witness ==
  /\ PlainPush
  /\ LastCall = Newline
  /\ before.mode = "fenceStart"
  /\ before.languageBuffer = <<" ", "a", " ">>

\* A list item block with the given id and text.
ListItem(id, text) == [Block(id, "listItem") EXCEPT !.text = text]

\* The input of two list items: a, then 1.
ListInput == <<"-", " ", "a", Newline, "-", " ", "1", Newline>>

RECURSIVE Decimal(_)
Decimal(ds) ==
  IF ds = <<>> THEN 0
  ELSE Decimal(SubSeq(ds, 1, Len(ds) - 1)) * 10 + parseInt(ds[Len(ds)])

\* An ordered list item block with the given id, number and text.
OrderedListItem(id, number, text) ==
  [Block(id, "orderedListItem") EXCEPT !.number = number, !.text = text]

\* The call just made added an OrderedListItem block.
ItemCreated ==
  /\ calls # <<>>
  /\ Len(blocks) > Len(before.blocks)
  /\ blocks[Len(blocks)].type = "orderedListItem"

\* The calls end with a digit run that starts at a line start, one ., and
\* the call just made; the run has the given decimal value.
MarkerBefore(number) ==
  /\ Len(calls) >= 3
  /\ calls[Len(calls) - 1] = "."
  /\ \E start \in 1..(Len(calls) - 2) :
       /\ AtLineStart(start)
       /\ \A i \in start..(Len(calls) - 2) : IsDigit(calls[i])
       /\ number = Decimal(SubSeq(calls, start, Len(calls) - 2))

ZeroMarkerSpace ==
  /\ PlainPush
  /\ LastCall = " "
  /\ before.mode = OrderedListMode
  /\ before.orderedListNumber = 0
  /\ Len(calls) >= 3
  /\ calls[Len(calls) - 1] = "."

RECURSIVE MarkerDigits(_)
MarkerDigits(cs) ==
  IF cs = <<>> \/ ~(IsDigit(cs[Len(cs)]) \/ cs[Len(cs)] = ".") THEN <<>>
  ELSE MarkerDigits(SubSeq(cs, 1, Len(cs) - 1))
         \o (IF IsDigit(cs[Len(cs)]) THEN <<cs[Len(cs)]>> ELSE <<>>)

\* The character just pushed cannot continue the marker of an ordered list
\* item that does not exist yet.
MarkerAborted ==
  /\ PlainPush
  /\ before.mode = OrderedListMode
  /\ ~CurrentIs(before, "orderedListItem")
  /\ ~IsDigit(LastCall)
  /\ LastCall \notin {".", Newline}
  /\ ~(LastCall = " " /\ before.orderedListNumber < 0)

MarkerAbortWritesValue ==
  (MarkerAborted /\ calls[Len(calls) - 1] # "." /\ before.orderedListNumber >= 0)
  => /\ mode = "paragraph"
     /\ orderedListNumber = 0
     /\ CurrentIs(Context, "paragraph")
     /\ Current(Context).text =
          toString(Decimal(MarkerDigits(SubSeq(calls, 1, Len(calls) - 1))))
            \o <<LastCall>>

\* The input of two ordered list items: a, then a again.
OrderedListInput ==
  <<"1", ".", " ", "a", Newline, "1", "1", ".", " ", "a", Newline>>

ItemContentOrdinary ==
  /\ (PlainPush /\ before.mode = OrderedListMode
               /\ CurrentIs(before, "orderedListItem")
               /\ ~IsDigit(LastCall) /\ LastCall \notin {".", " "})
     => IF LastCall = Newline
        THEN /\ mode = "paragraph"
             /\ currentBlock = 0
             /\ blocks = before.blocks
             /\ lastDiffs = <<>>
        ELSE /\ mode = OrderedListMode
             /\ currentBlock = before.currentBlock
             /\ blocks = WithText(<<LastCall>>)
             /\ lastDiffs = <<PatchDiff(blocks[currentBlock])>>
  /\ calls = OrderedListInput
     => blocks = <<OrderedListItem(0, 1, <<"a">>), OrderedListItem(1, 11, <<"a">>)>>

\* The outcome of making a sequence of calls, one after the other, on a
\* reducer that is in the given context and has returned the given diffs.
RECURSIVE Fed(_, _)
Fed(cs, out) ==
  IF cs = <<>> THEN out
  ELSE Fed(Tail(cs),
           After(out.diffs, IF Head(cs) = "close" THEN close(out.ctx)
                            ELSE push(Head(cs), out.ctx)))

\* The outcome of the calls on a fresh reducer.
Fresh(cs) == Fed(cs, Out(createInitialContext, <<>>))

\* The position of the last close before the call just made (0: there is none).
LastCloseBefore ==
  Max({0} \cup {i \in 1..(Len(calls) - 1) : calls[i] = "close"})

\* The calls made after that close, but for the call just made.
SinceClose == SubSeq(calls, LastCloseBefore + 1, Len(calls) - 1)

\* A diff with its id raised by n.
ShiftDiff(d, n) == [d EXCEPT !.id = @ + n, !.block.id = @ + n]

\* The context fields that resetState sets are at their initial values.
StateReset ==
  /\ mode = createInitialContext.mode
  /\ currentBlock = createInitialContext.currentBlock
  /\ pendingBackticks = createInitialContext.pendingBackticks
  /\ languageBuffer = createInitialContext.languageBuffer
  /\ headingLevel = createInitialContext.headingLevel

\* The call just made returned the diffs and left the blocks and the parse
\* state of the given outcome, every id raised by n.
Matches(step, n) ==
  /\ n >= 0
  /\ lastDiffs = [i \in 1..Len(step.diffs) |-> ShiftDiff(step.diffs[i], n)]
  /\ SubSeq(blocks, n + 1, Len(blocks))
       = [i \in 1..Len(step.ctx.blocks) |-> [step.ctx.blocks[i] EXCEPT !.id = @ + n]]
  /\ nextBlockId = step.ctx.nextBlockId + n
  /\ mode = step.ctx.mode
  /\ pendingBackticks = step.ctx.pendingBackticks
  /\ languageBuffer = step.ctx.languageBuffer
  /\ headingLevel = step.ctx.headingLevel
  /\ currentBlock = IF step.ctx.currentBlock = 0 THEN 0 ELSE step.ctx.currentBlock + n

\* The call just made, made on a fresh reducer that has made the calls
\* since the last close.
FreshStep(fresh) ==
  IF LastCall = "close" THEN close(fresh.ctx) ELSE push(LastCall, fresh.ctx)

\* The reducer, re-used after a close, answered the call just made as a
\* fresh one would after the calls made since that close, every id raised
\* by the number of blocks created before that close (shifted) or by none.
ReusedAsFresh(shifted) ==
  LET fresh == Fresh(SinceClose)
  IN Matches(FreshStep(fresh),
             IF shifted THEN before.nextBlockId - fresh.ctx.nextBlockId ELSE 0)

\* C25 as stated: after close() the whole context is the initial one, ids
\* and blocks included, so a re-used instance emits the diffs of a fresh one.
C25_InitialAfterClose_Original ==
  /\ AfterClose => Context = createInitialContext
  /\ LastCloseBefore > 0 => ReusedAsFresh(FALSE)

\* C25: after close() the mode is Paragraph, there is no current block, no
\* pending backtick, an empty language buffer and heading level 0, while
\* the blocks and the id counter are kept; an instance re-used after
\* close() emits, for any later input, the diffs of a fresh instance with
\* every id raised by the number of blocks created before that close.
C25_ReuseAfterClose ==
  /\ AfterClose
     => /\ StateReset
        /\ nextBlockId = Len(blocks)
        /\ Len(blocks) >= Len(before.blocks)
  /\ LastCloseBefore > 0 => ReusedAsFresh(TRUE)

\* C25 witness: a block was created, the reducer closed, and a second block
\* created by a later push.
C25_Witness ==
  /\ LastCloseBefore > 0
  /\ AfterPush
  /\ before.nextBlockId > Fresh(SinceClose).ctx.nextBlockId
  /\ Len(blocks) > Len(before.blocks)

\* The close just made was the first call on the reducer, or came right
\* after another close.
CloseWithNothingOpen ==
  /\ AfterClose
  /\ Len(calls) = 1 \/ calls[Len(calls) - 1] = "close"

\* C26: close() on a fresh reducer, or again right after a close(), returns
\* no diff and leaves every field of the context as it was.
C26_CloseIdempotent ==
  CloseWithNothingOpen
  => /\ lastDiffs = <<>>
     /\ Context = before
     /\ Len(calls) = 1 => Context = createInitialContext /\ diffs = <<>>

\* C26 witness: a second close right after the close of a reducer that has
\* a block.
C26_Witness ==
  /\ CloseWithNothingOpen
  /\ Len(calls) >= 3
  /\ blocks # <<>>

\* The positions in a text of the backticks that belong to no triple.
Singles(text) ==
  {i \in 1..Len(text) :
     /\ text[i] = Backtick
     /\ ~(\E k \in {i - 2, i - 1, i} : TripleAt(text, k))}

\* The text has an opener of inline code that is not closed: its last
\* backtick outside a triple is followed by content that is not empty and
\* not only whitespace and emphasis markers, the number of such backticks
\* is odd, and the number of triples is even.
UnclosedOpener(text) ==
  /\ Singles(text) # {}
  /\ Max(Singles(text)) < Len(text)
  /\ \E j \in (Max(Singles(text)) + 1)..Len(text) :
       text[j] \notin Whitespace \cup EmphasisMarkers \cup {Backtick}
  /\ Cardinality(Singles(text)) % 2 = 1
  /\ countTriples(text, 1) % 2 = 0

\* What the repair step of the close just made was given: the context once
\* the pending backticks were flushed, and the diffs of that flush.
AtRepair ==
  IF before.pendingBackticks > 0 THEN flushPendingBackticks(before)
  ELSE notHandled(before)

\* The repair step was given a Paragraph as the current block.
RepairsParagraph ==
  /\ AfterClose
  /\ AtRepair.ctx.mode = "paragraph"
  /\ CurrentIs(AtRepair.ctx, "paragraph")

\* C27: when at close() the current block is a Paragraph whose text has an
\* unclosed inline-code opener, close() appends exactly one backtick to
\* that text and emits exactly one Patch, which carries the repaired text;
\* so a backtick, a, close ends with the one Paragraph of id 0 whose text is
\* a between two backticks.
C27_RepairUnclosedOpener ==
  /\ (RepairsParagraph /\ UnclosedOpener(Current(AtRepair.ctx).text))
     => /\ blocks = [AtRepair.ctx.blocks EXCEPT
                       ![AtRepair.ctx.currentBlock].text = @ \o <<Backtick>>]
        /\ lastDiffs = AtRepair.diffs
                         \o <<PatchDiff(blocks[AtRepair.ctx.currentBlock])>>
  /\ calls = <<Backtick, "a", "close">>
     => /\ blocks = <<Paragraph(0, <<Backtick, "a", Backtick>>)>>
        /\ lastDiffs = <<PatchDiff(blocks[1])>>

\* C27 witness: the close after a backtick and a.
C27_Witness ==
  /\ RepairsParagraph
  /\ UnclosedOpener(Current(AtRepair.ctx).text)
  /\ calls = <<Backtick, "a", "close">>

\* No Paragraph's text has three backticks in a row.
NoTripleInParagraph ==
  \A i \in 1..Len(blocks) :
    blocks[i].type = "paragraph"
    => \A k \in 1..Len(blocks[i].text) : ~TripleAt(blocks[i].text, k)

\* The close just made left the text of every block that is not a
\* Paragraph as it was.
OthersKeepText ==
  \A i \in 1..Len(before.blocks) :
    before.blocks[i].type # "paragraph" => blocks[i].text = before.blocks[i].text

\* The close just made changed the text of a block that is not a Paragraph
\* only by adding the pending backticks to the current block.
OthersOnlyFlushed ==
  \A i \in 1..Len(before.blocks) :
    before.blocks[i].type # "paragraph"
    => \/ blocks[i] = before.blocks[i]
       \/ /\ i = before.currentBlock
          /\ before.pendingBackticks > 0
          /\ blocks[i] = [before.blocks[i] EXCEPT
                            !.text = @ \o repeat(Backtick, before.pendingBackticks)]

\* The repair step of the close just made left alone a Paragraph whose text
\* has no unclosed opener: no text changed and no Patch was added.
NoRepairWithoutOpener ==
  (RepairsParagraph /\ ~UnclosedOpener(Current(AtRepair.ctx).text))
  => /\ blocks = AtRepair.ctx.blocks
     /\ lastDiffs = AtRepair.diffs

FlushedIntoOther ==
  /\ AfterClose
  /\ before.pendingBackticks > 0
  /\ HasCurrent(before)
  /\ Current(before).type # "paragraph"
  /\ blocks[before.currentBlock].text # Current(before).text

\* The texts of a sequence of blocks, one after the other.
RECURSIVE AllText(_)
AllText(bs) ==
  IF bs = <<>> THEN <<>>
  ELSE AllText(SubSeq(bs, 1, Len(bs) - 1)) \o bs[Len(bs)].text

\* The elements of a are elements of b, in the order they have in b.
RECURSIVE IsSubsequence(_, _)
IsSubsequence(a, b) ==
  IF a = <<>> THEN TRUE
  ELSE IF b = <<>> THEN FALSE
  ELSE IF Head(a) = Head(b) THEN IsSubsequence(Tail(a), Tail(b))
  ELSE IsSubsequence(a, Tail(b))

\* The calls so far are the pushes of one input, with no close yet.
OneInput == \A i \in 1..Len(calls) : calls[i] # "close"

\* The calls so far are the pushes of one input and the close that ends it.
OneInputClosed ==
  /\ AfterClose
  /\ \A i \in 1..(Len(calls) - 1) : calls[i] # "close"

\* No phantom content: the block texts hold only characters of the input,
\* in the order of the input; the close adds at most the one backtick of
\* the repair, at the end of the current block.
NoPhantom ==
  /\ OneInput => IsSubsequence(AllText(blocks), calls)
  /\ OneInputClosed
     => /\ IsSubsequence(AllText(AtRepair.ctx.blocks),
                         SubSeq(calls, 1, Len(calls) - 1))
        /\ \/ blocks = AtRepair.ctx.blocks
           \/ /\ HasCurrent(AtRepair.ctx)
              /\ blocks = [AtRepair.ctx.blocks EXCEPT
                             ![AtRepair.ctx.currentBlock].text = @ \o <<Backtick>>]

\* The character just pushed came in the middle of a line of content: the
\* current block has text already, and the mode is not the one that reads
\* the language line of a fence.
MidContent ==
  /\ PlainPush
  /\ OneInput
  /\ LastCall # Newline
  /\ HasCurrent(before)
  /\ Current(before).text # <<>>
  /\ before.mode # "fenceStart"

\* No lost content: a character in the middle of a line of content is no
\* marker, and is appended to the current block as literal text.
NoLoss ==
  MidContent
  => /\ currentBlock = before.currentBlock
     /\ blocks = WithText(<<LastCall>>)

\* C29: no phantom and no lost content: for an input fed character by
\* character and closed, the block texts hold only characters of the input
\* in input order, plus at most the one backtick of the repair; and the
\* only input characters in no block text are markers (list markers, fences
\* with their language line, heading #s with their space, newlines between
\* blocks): a character in the middle of a line of content is appended as
\* literal text.
C29_NoPhantomNoLoss == NoPhantom /\ NoLoss

\* The calls made so far, each token given as its characters, one per call.
RECURSIVE CharacterCalls(_)
CharacterCalls(cs) ==
  IF cs = <<>> THEN <<>> ELSE CharsOf(Head(cs)) \o CharacterCalls(Tail(cs))

\* C30: chunk-invariance: an input pushed in tokens of one or more
\* characters and closed leaves the blocks that the same input leaves when
\* pushed one character per push and closed.
C30_ChunkInvariance ==
  OneInputClosed => blocks = Fresh(CharacterCalls(calls)).ctx.blocks

\* Tokens of ordinary characters alone leave the blocks of their characters.
OrdinaryChunksInvariant ==
  (OneInputClosed /\ \A i \in 1..Len(calls) : calls[i] # "# ")
  => blocks = Fresh(CharacterCalls(calls)).ctx.blocks

\* The block that the holder of an emitted diff reads in it now.
Held(diff) ==
  IF "alias" \in DOMAIN diff THEN blocks[diff.alias] ELSE diff.block

Increasing(positions) ==
  \A i \in 1..(Len(positions) - 1) : positions[i] < positions[i + 1]

\* The diffs that the subscription was called with, of those produced by
\* the calls made after it was subscribed.
RECURSIVE After_(_, _)
After_(positions, from) ==
  IF positions = <<>> THEN <<>>
  ELSE (IF Head(positions) > from THEN <<Head(positions)>> ELSE <<>>)
         \o After_(Tail(positions), from)

\* The subscription was called once with every diff produced since it was
\* subscribed, in the order of diffs.
GotAll(sub) ==
  After_(subs[sub].got, subs[sub].from)
    = [k \in 1..(Len(diffs) - subs[sub].from) |-> subs[sub].from + k]

\* No push or close of the controller is in progress.
Quiet == outbox = <<>>

ParagraphModeBlock ==
  mode = "paragraph" =>
    \/ currentBlock = 0
    \/ /\ blocks[currentBlock].type = "paragraph"
       /\ blocks[currentBlock].text # <<>>

\* The paragraphs of blocks that have no text.
EmptyParagraphs ==
  {i \in 1..Len(blocks) : blocks[i].type = "paragraph" /\ blocks[i].text = <<>>}

\* C33: whenever the mode is Paragraph after a push, the current block is
\* absent or is a paragraph with text (so a line start in Paragraph mode is
\* the absence of a current block), and no paragraph without text is ever
\* in blocks.
C33_ParagraphModeBlock ==
  /\ AfterPush => ParagraphModeBlock
  /\ EmptyParagraphs = {}

\* C33 witness: a newline has just ended a paragraph: the mode stays
\* Paragraph, the paragraph keeps its text and nothing is current.
C33_Witness ==
  /\ AfterPush
  /\ LastCall = Newline
  /\ mode = "paragraph"
  /\ before.mode = "paragraph"
  /\ before.currentBlock # 0
  /\ currentBlock = 0
  /\ blocks[before.currentBlock].type = "paragraph"

\* The current block is present and is a code block.
CodeBlockOpen ==
  /\ currentBlock # 0
  /\ blocks[currentBlock].type = "code"

\* C34: whenever the mode is FenceStart or Code after a push, the current
\* block is present and is a code block, so a character pushed in Code mode
\* always finds the block that it is appended to.
C34_CodeModeBlock ==
  /\ (AfterPush /\ mode \in {"fenceStart", "code"}) => CodeBlockOpen
  /\ (AfterPush /\ before.mode = "code" /\ LastCall # Backtick) =>
       /\ CodeBlockOpen
       /\ currentBlock = before.currentBlock
       /\ blocks[currentBlock].text
            = before.blocks[currentBlock].text
                \o repeat(Backtick, before.pendingBackticks) \o <<LastCall>>
       /\ lastDiffs # <<>>
       /\ lastDiffs[Len(lastDiffs)] = PatchDiff(blocks[currentBlock])

\* C34 witness: a character pushed in Code mode was appended to the code
\* block and patched.
C34_Witness ==
  /\ AfterPush
  /\ before.mode = "code"
  /\ mode = "code"
  /\ CodeBlockOpen
  /\ Len(lastDiffs) = 1
  /\ lastDiffs[1].kind = "patch"
  /\ lastDiffs[1].block.text
       = before.blocks[before.currentBlock].text \o <<LastCall>>

\* C35: with one character per push, no paragraph's text ever has three
\* backticks in a row, in any state and after close; so the inline
\* triple-backtick rule of the repair changes no paragraph.
C35_NoTripleBacktickInParagraph ==
  /\ NoTripleInParagraph
  /\ \A i \in 1..Len(blocks) :
       blocks[i].type = "paragraph"
       => handleInlineTripleBackticks(blocks[i].text).text = blocks[i].text

\* C35 witness: close has flushed two pending backticks into a paragraph,
\* whose text now ends with exactly two backticks.
C35_Witness ==
  /\ AfterClose
  /\ before.pendingBackticks = 2
  /\ \E i \in 1..Len(blocks) :
       /\ blocks[i].type = "paragraph"
       /\ endsWith(blocks[i].text, 2)

\* The blocks that are not code blocks and have a newline in their text.
NewlineOutsideCode ==
  {i \in 1..Len(blocks) :
     /\ blocks[i].type # "code"
     /\ \E k \in 1..Len(blocks[i].text) : blocks[i].text[k] = Newline}

\* C36: the text of a paragraph, heading, list item or ordered list item
\* never contains a newline; only the text of a code block may.
C36_NoNewlineOutsideCode == NewlineOutsideCode = {}

\* Every newline outside code is in a paragraph and ends its leading run of #s.
NewlineOnlyAfterHashes ==
  \A i \in NewlineOutsideCode :
    /\ blocks[i].type = "paragraph"
    /\ \A k \in 1..Len(blocks[i].text) :
         blocks[i].text[k] = Newline
         => k > 1 /\ \A j \in 1..(k - 1) : blocks[i].text[j] = "#"

FenceAmongCalls ==
  \E i \in 1..(Len(calls) - 2) :
    calls[i] = Backtick /\ calls[i + 1] = Backtick /\ calls[i + 2] = Backtick

\* The ordered list number is 0 outside OrderedList mode as long as no fence
\* was opened and close was not called.
NumberZeroWithoutFenceOrClose ==
  (mode # OrderedListMode /\ orderedListNumber # 0)
    => (FenceAmongCalls \/ \E i \in 1..Len(calls) : calls[i] = "close")

DefaultRegistryCoversOthers ==
  mode # OrderedListMode => getReducer(mode) # "none"

\* No listener was called through a subscription whose unsubscribe function
\* had returned.
NotCalledAfterUnsubscribe ==
  \A sub \in 1..Len(subs) : ~subs[sub].late

\* When no call is in progress, every subscription whose own unsubscribe
\* function was not called has been called with every diff produced since
\* it was made.
OthersKeepReceiving ==
  Quiet => \A sub \in 1..Len(subs) : ~subs[sub].gone => GotAll(sub)

\* C39: the unsubscribe function removes exactly the subscription that
\* returned it: its listener is called with no diff after unsubscribe
\* returns, the rest of a push in progress included, and every other
\* subscription, a second one of the same function included, keeps being
\* called with every diff.
C39_UnsubscribeExact ==
  /\ NotCalledAfterUnsubscribe
  /\ OthersKeepReceiving

\* A subscription stops being called only when an unsubscribe function for
\* its own listener function was called.
OnlySameFunctionLost ==
  Quiet =>
    \A sub \in 1..Len(subs) :
      GotAll(sub) \/ \E other \in 1..Len(subs) :
                       subs[other].gone /\ subs[other].fn = subs[sub].fn

\* C40: the repair function is idempotent, and what it returns is its
\* argument or its argument followed by one backtick.
C40_RepairIdempotent ==
  /\ Len(results) >= 1 => results[1] \in {input, input \o <<Backtick>>}
  /\ Len(results) >= 2 => results[2] = results[1]

\* C40 witness: the first call appended a backtick to a text starting with
\* three backticks and ending with two, and a second call was made on the
\* result.
C40_Witness ==
  /\ Len(results) >= 2
  /\ TripleAt(input, 1)
  /\ results[1] = input \o <<Backtick>>

\* The first call appended a backtick to an unclosed single opener, and a
\* second call was made on the result.
RepairedSingleOpener ==
  /\ Len(results) >= 2
  /\ ~TripleAt(input, 1)
  /\ results[1] = input \o <<Backtick>>

====
